---- MODULE Spec2Model ----
(***************************************************************************)
(* Real-time lip-sync pipeline of the VTuber 2D Animator:                  *)
(*   audio.js      capture callback and the bounded frame buffer           *)
(*   lipsync.js    phoneme -> mouth category mapping with smoothing        *)
(*   animation.js  mouth sprite switch and the eye blink machine           *)
(*   main.js       the render tick (animate) and the throttled driver      *)
(*                 (processAudio), the microphone and test-mode handlers   *)
(*                                                                         *)
(* Time units.  Date.now() is in milliseconds.  The blink machine counts   *)
(* in render ticks: one tick adds 1/60 s, so blink times are written in    *)
(* units of 1/60 s (blinkDuration 0.15 s = 9 units; nextBlinkTime in       *)
(* [2 s, 5 s) = [120, 300) units).  In IEEE doubles nine additions of 1/60 *)
(* give exactly 0.15, so "blinkTimer > blinkDuration" first holds on the   *)
(* tenth tick, as it does with the integer units used here.                *)
(* Math.random() is modelled by the draws r/10, r in 0..9, and the         *)
(* smoothing factor is written in tenths (0.7 = 7).                        *)
(***************************************************************************)
EXTENDS Integers, Sequences, FiniteSets, TLC

VARIABLES
  \* audio.js
  audioBuffers,        \* the module array audioBuffers: frames, oldest first
  queueRef,            \* what window.audioBufferQueue refers to
  capturing,           \* some capture callback is connected and fed
  mediaStream,         \* mediaStream is not null
  isAudioRunning,      \* isAudioRunning; scriptProcessor is assigned and
                       \* cleared together with it
  producers,           \* capture callbacks connected to a live stream
  starting,            \* startMicrophone calls awaiting getUserMedia
  nextFrameId,         \* identity of the next captured frame (capture order)
  \* main.js: appState and the closure of createAudioProcessor
  isMicEnabled,
  testMode,
  isAudioTestMode,
  phonemeCategory,     \* appState.phonemeCategory
  now,                 \* the value of the latest Date.now() read
  lastProcessTime,
  isProcessing,
  pending,             \* frames whose processAudioBuffer promise has not settled
  \* lipsync.js
  phonemeHistory,
  smoothingFactor,     \* SMOOTHING_FACTOR of the build, in tenths
  rhubarb,             \* the classifier installed: null or an engine
  lipSyncState,        \* what initLipSync returned, once it has
  \* animation.js
  currentMouthType,
  mouthVisible,        \* the mouth types whose sprite is visible
  isBlinking,
  blinkTimer,
  nextBlinkTime,
  timeSinceLastBlink,
  currentEyeState,
  eyesVisible,         \* the eye states whose sprite is visible
  loadedSprites,       \* the assets whose sprite data has loaded set
  \* observations of the run (not program state)
  delivered,           \* frames handed to processAudioBuffer, in order
  cycleStarts,         \* Date.now() of each dequeue-and-classify cycle start
  tickStarts,          \* cycles started by the most recent tick
  lastResolve,         \* the most recent getPhonemeCategory call
  lastMouthCall,       \* the most recent updateMouthSprite call, and the
                       \* category of the latest manual mouth change
  lastEyeTick,         \* the most recent updateEyeSprite call
  ticks,               \* render ticks taken (bounded runs only)
  eyeOverride,         \* the most recent manual eye operation and the ticks since
  lastStop,            \* the most recent stopMicrophone
  lastStart,           \* the most recent startMicrophone
  lastSettle,          \* the most recent settled classification
  lastTick,            \* what the most recent render tick found
  lastClassify,        \* the most recent direct processAudioBuffer call
  lastLoad             \* the most recent loadAssetSprite call

audioVars  == <<audioBuffers, queueRef, capturing, nextFrameId>>
micVars    == <<mediaStream, isAudioRunning, producers, starting>>
driverVars == <<now, lastProcessTime, isProcessing, pending>>
appVars    == <<isMicEnabled, testMode, isAudioTestMode, phonemeCategory>>
lipVars    == <<phonemeHistory, smoothingFactor>>
mouthVars  == <<currentMouthType, mouthVisible>>
eyeVars    == <<isBlinking, blinkTimer, nextBlinkTime, timeSinceLastBlink,
                currentEyeState, eyesVisible>>
obsVars    == <<delivered, cycleStarts, tickStarts, lastResolve, lastMouthCall,
                lastEyeTick, ticks>>
engineVars == <<rhubarb, lipSyncState>>
assetVars  == <<loadedSprites, lastLoad>>
traceVars  == <<eyeOverride, lastStop, lastStart, lastSettle, lastTick,
               lastClassify>>
vars == <<audioVars, micVars, driverVars, appVars, lipVars, mouthVars, eyeVars, obsVars,
          engineVars, assetVars, traceVars>>

----------------------------------------------------------------------------
(* Bounds of the exploration *)

MaxFrames == 17          \* frames captured in a run of the frame buffer
BufferTicks == 3         \* render ticks in a run of the frame buffer
PipelineFrames == 3      \* frames captured in a run of the pipeline
MaxTicks == 5            \* render ticks in a run of the pipeline
MaxCalls == 2            \* history length up to which the mapping is called
TimeCap == 320           \* cap of timeSinceLastBlink (units of 1/60 s)
EpochStart == 1000       \* Date.now() when the page starts (ms)
LoopFrames == 1          \* frames captured in a run of the render loop
LoopTicks == 11          \* render ticks in a run of the render loop
LiveTicks == 2           \* live-mode ticks of a run in the audio test mode
GuardTicks == 4          \* render ticks in a run of the re-entrancy guard
MaxStarts == 2           \* startMicrophone calls awaiting getUserMedia at once
MaxProducers == 3        \* capture callbacks connected at once
MaxLoads == 1            \* assets loaded in a run of the asset loader

\* ms between two successive Date.now() reads of the driver: a 240 Hz frame,
\* a 60 Hz frame, a stalled frame
ClockGaps == {4, 17, 50}

\* draws of Math.random() * 3 + 2, in units of 1/60 s
BlinkDeadlines == {120, 180, 299}

\* draws of Math.random(), in tenths
RandomDraws == 0 .. 9

----------------------------------------------------------------------------
(* Program constants *)

BUFFER_LIMIT == 15

\* createScriptProcessor(4096, 1, 1): samples in one captured frame
FRAME_SIZE == 4096
\* new AudioContext({ sampleRate: 16000 }): samples per second
SAMPLE_RATE == 16000
\* the audio held in a queue of captured frames, in milliseconds
BufferedMillis(q) == (Len(q) * FRAME_SIZE * 1000) \div SAMPLE_RATE
PROCESS_INTERVAL == 50
HISTORY_LIMIT == 10
SMOOTHING_FACTOR == 7
blinkDuration == 9

MouthTypes == {"idle", "a", "e", "o", "u", "closed", "m", "f"}
EyeStates == {"open", "closed"}


----------------------------------------------------------------------------
(* audio.js: the capture callback's buffer discipline *)

\* a capture callback that refuses the new frame when the buffer is full
PushFrameDropNew(q, f) ==
  IF Len(q) >= BUFFER_LIMIT THEN q ELSE Append(q, f)

\* audioBuffers.push(frame); if (audioBuffers.length > 15) audioBuffers.shift()
PushFrame(q, f) ==
  LET pushed == Append(q, f)
  IN IF Len(pushed) > BUFFER_LIMIT THEN Tail(pushed) ELSE pushed

\* window.audioBufferQueue as the driver sees it: the module array once
\* startMicrophone aliased it, otherwise undefined or stopMicrophone's fresh []
WindowQueue(ref, buffers) == IF ref = "audioBuffers" THEN buffers ELSE <<>>

\* what getUserMedia and the set-up after it can do: the stream is granted and
\* the audio graph is built; the request is rejected; the stream is granted
\* and building the graph throws (audioContext is null after a failed
\* initAudio, whose result main ignores)
StartOutcomes == {"granted", "denied", "threw"}

\* startMicrophone after its await: mediaStream is assigned whatever it was,
\* then the callback is installed and connected, unless something throws
AfterGetUserMedia(m, outcome) ==
  IF outcome = "granted"
  THEN [mic |-> [mediaStream |-> TRUE, isAudioRunning |-> TRUE,
                 producers |-> m.producers + 1, queueRef |-> "audioBuffers"],
        success |-> TRUE]
  ELSE IF outcome = "threw"
  THEN [mic |-> [m EXCEPT !.mediaStream = TRUE], success |-> FALSE]
  ELSE [mic |-> m, success |-> FALSE]

\* startMicrophone() run without interruption: { success: true } at once if
\* mediaStream is set, else the request and what follows it
StartMicrophone(m, outcome) ==
  IF m.mediaStream
  THEN [mic |-> m, success |-> TRUE]
  ELSE AfterGetUserMedia(m, outcome)

\* stopMicrophone(): the stream and the node the module variables refer to are
\* stopped and disconnected, window.audioBufferQueue becomes a fresh []
StopMicrophone(m) ==
  [mediaStream |-> FALSE, isAudioRunning |-> FALSE,
   producers |-> IF m.isAudioRunning THEN m.producers - 1 ELSE m.producers,
   queueRef |-> "fresh"]

----------------------------------------------------------------------------
(* lipsync.js: PHONEME_MAP and getPhonemeCategory *)

PHONEME_MAP ==
  ( "A" :> "a" @@ "E" :> "e" @@ "I" :> "a" @@ "O" :> "o" @@ "U" :> "u" @@
    "M" :> "m" @@ "B" :> "m" @@ "P" :> "m" @@ "N" :> "m" @@
    "F" :> "f" @@ "V" :> "f" @@ "T" :> "f" @@ "D" :> "f" @@
    "L" :> "a" @@ "K" :> "closed" @@ "G" :> "closed" @@ "S" :> "f" @@ "Z" :> "f" )

\* PHONEME_MAP is an object literal: a lookup also finds the members it
\* inherits from Object.prototype, which are functions (truthy)
InheritedKeys == {"constructor", "toString"}
InheritedMember == "[Object.prototype member]"
Undefined == "undefined"

\* the argument of getPhonemeCategory: null/undefined, or an event given by
\* its phoneme field ("" stands for an event whose phoneme is missing or empty)
NullEvent == "<null>"

\* PHONEME_MAP[phonemeChar]
MapLookup(phonemeChar) ==
  IF phonemeChar \in DOMAIN PHONEME_MAP THEN PHONEME_MAP[phonemeChar]
  ELSE IF phonemeChar \in InheritedKeys THEN InheritedMember
  ELSE Undefined

\* a candidate that names the silent mouth silence, the word the test panel
\* uses, in place of idle
CandidateSilence(phoneme) ==
  LET phonemeChar == IF phoneme = "" THEN "rest" ELSE phoneme
      mapped == MapLookup(phonemeChar)
      category == IF mapped = Undefined THEN "closed" ELSE mapped
  IN IF phonemeChar = "rest" \/ phonemeChar = "silent" THEN "silence" ELSE category

\* the category before smoothing
Candidate(phoneme) ==
  LET phonemeChar == IF phoneme = "" THEN "rest" ELSE phoneme
      mapped == MapLookup(phonemeChar)
      category == IF mapped = Undefined THEN "closed" ELSE mapped
  IN IF phonemeChar = "rest" \/ phonemeChar = "silent" THEN "idle" ELSE category

\* Math.random() > (1 - SMOOTHING_FACTOR), with r and factor in tenths
ShouldSwitch(r, factor) == r > 10 - factor

\* a smoothing step that falls back to idle when it rejects the candidate
SmoothToIdle(category, history, factor, r) ==
  IF history # <<>> /\ history[Len(history)] # category /\ ~(r > 10 - factor)
  THEN "idle"
  ELSE category

\* a smoothing step that draws whether or not the candidate differs, and
\* closes the mouth when the draw says not to switch
SmoothClosesOnDoubt(category, history, factor, r) ==
  IF history # <<>> /\ ~(r > 10 - factor) THEN "closed" ELSE category

\* a smoothing step that takes idle for the previous category of an empty
\* history
SmoothFromIdle(category, history, factor, r) ==
  LET previous == IF history = <<>> THEN "idle" ELSE history[Len(history)]
  IN IF previous # category /\ ~(r > 10 - factor) THEN previous ELSE category

\* the smoothing step against the last history entry
Smooth(category, history, factor, r) ==
  IF history # <<>> /\ history[Len(history)] # category /\ ~ShouldSwitch(r, factor)
  THEN history[Len(history)]
  ELSE category

\* phonemeHistory.push(category); if (phonemeHistory.length > 10) shift()
PushHistory(history, category) ==
  LET pushed == Append(history, category)
  IN IF Len(pushed) > HISTORY_LIMIT THEN Tail(pushed) ELSE pushed

\* getPhonemeCategory(phoneme): the category returned and the history left
GetPhonemeCategory(phoneme, history, factor, r) ==
  IF phoneme = NullEvent
  THEN [category |-> "idle", history |-> history]
  ELSE LET category == Smooth(Candidate(phoneme), history, factor, r)
       IN [category |-> category, history |-> PushHistory(history, category)]

----------------------------------------------------------------------------
(* lipsync.js: initLipSync, loadRhubarbWasm, MockRhubarb, processAudioBuffer *)

\* the values of the module variable rhubarb
NoEngine == "null"
MockRhubarb == "MockRhubarb"

\* loadRhubarbWasm() that threw, as initLipSync's catch would see it
LoadThrew == "<threw>"

\* what fetch('/wasm/rhubarb.wasm') did
FetchOutcomes == {"ok", "not ok", "rejected"}

\* loadRhubarbWasm(): null when fetch rejects (its catch), null when the
\* response is not ok, and null when it is ok, the instantiation being
\* commented out
LoadRhubarbWasm(fetched) ==
  IF fetched = "rejected" THEN NoEngine
  ELSE IF fetched = "not ok" THEN NoEngine
  ELSE NoEngine

\* an initLipSync that installs nothing when no engine was loaded
InitLipSyncNoFallback(loaded) ==
  IF loaded = LoadThrew
  THEN [rhubarb |-> MockRhubarb,
        result |-> [returned |-> TRUE, success |-> TRUE, usingMock |-> TRUE]]
  ELSE [rhubarb |-> loaded,
        result |-> [returned |-> TRUE, success |-> TRUE, usingMock |-> FALSE]]

\* initLipSync(), loaded being what the awaited loadRhubarbWasm() produced:
\* the engine installed and the object returned (usingMock is set only by
\* the catch branch)
InitLipSync(loaded) ==
  IF loaded = LoadThrew
  THEN [rhubarb |-> MockRhubarb,
        result |-> [returned |-> TRUE, success |-> TRUE, usingMock |-> TRUE]]
  ELSE IF loaded = NoEngine
  THEN [rhubarb |-> MockRhubarb,
        result |-> [returned |-> TRUE, success |-> TRUE, usingMock |-> FALSE]]
  ELSE [rhubarb |-> loaded,
        result |-> [returned |-> TRUE, success |-> TRUE, usingMock |-> FALSE]]

\* getDiagnosticInfo().isUsingMock: rhubarb instanceof MockRhubarb
IsUsingMock(engine) == engine = MockRhubarb

\* the argument of processAudioBuffer: null, or an object whose data is a
\* Float32Array, a plain array or missing; sound is what analyzeFrequency
\* finds in the samples (nothing but NaN in an empty array)
NullFrame == [data |-> "null", sound |-> "none"]
Sounds == {"silent", "flat", "low", "high", "loud", "murmur"}
Frames ==
  [data : {"Float32Array", "Array"}, sound : Sounds]
    \cup {[data |-> "undefined", sound |-> "nan"], NullFrame}

\* MockRhubarb.analyzeFrequency on one sample array of each kind; energy in
\* thousandths, the ratios in hundredths, rounded down:
\*   silent  4096 samples of 0
\*   flat    4096 samples of 0.012
\*   low     4096 samples, 0.5 at the even indices and 0 at the odd ones
\*   high    4096 samples, 0 at the even indices and 0.5 at the odd ones
\*   loud    4096 samples of 0.5
\*   murmur  1000000 samples of 0.005
\*   nan     no samples (new Float32Array(undefined)): 0 / 0 is NaN
AnalyzeFrequency(sound) ==
  CASE sound = "silent" ->
         [nan |-> FALSE, energy |-> 0, lowFreqRatio |-> 0, highFreqRatio |-> 0]
    [] sound = "flat" ->
         [nan |-> FALSE, energy |-> 12, lowFreqRatio |-> 29, highFreqRatio |-> 29]
    [] sound = "low" ->
         [nan |-> FALSE, energy |-> 353, lowFreqRatio |-> 37826, highFreqRatio |-> 0]
    [] sound = "high" ->
         [nan |-> FALSE, energy |-> 353, lowFreqRatio |-> 0, highFreqRatio |-> 37826]
    [] sound = "loud" ->
         [nan |-> FALSE, energy |-> 500, lowFreqRatio |-> 34133,
          highFreqRatio |-> 34133]
    [] sound = "murmur" ->
         [nan |-> FALSE, energy |-> 5, lowFreqRatio |-> 1243, highFreqRatio |-> 1243]
    [] OTHER ->
         [nan |-> TRUE, energy |-> 0, lowFreqRatio |-> 0, highFreqRatio |-> 0]

\* a detectPhonemeCategory that looks at the low-frequency ratio before the
\* silence threshold
DetectVowelFirst(spectrum, r) ==
  IF ~spectrum.nan /\ spectrum.lowFreqRatio > 55
  THEN <<"A", "E", "O", "U">>[((r * 4) \div 10) + 1]
  ELSE IF ~spectrum.nan /\ spectrum.energy < 10 THEN "rest"
  ELSE IF ~spectrum.nan /\ spectrum.highFreqRatio > 55
  THEN (IF r > 5 THEN "F" ELSE "S")
  ELSE (IF r > 5 THEN "M" ELSE "N")

\* MockRhubarb.detectPhonemeCategory, r the Math.random() draw in tenths;
\* every comparison with NaN is false
DetectPhonemeCategory(spectrum, r) ==
  IF ~spectrum.nan /\ spectrum.energy < 10 THEN "rest"
  ELSE IF ~spectrum.nan /\ spectrum.lowFreqRatio > 55
  THEN <<"A", "E", "O", "U">>[((r * 4) \div 10) + 1]
  ELSE IF ~spectrum.nan /\ spectrum.highFreqRatio > 55
  THEN (IF r > 5 THEN "F" ELSE "S")
  ELSE (IF r > 5 THEN "M" ELSE "N")

\* processAudioBuffer(audioBuffer): the phoneme events returned
ProcessAudioBuffer(engine, frame, r) ==
  IF engine = NoEngine THEN <<>>
  ELSE IF frame = NullFrame THEN <<>>
  ELSE <<[phoneme |-> DetectPhonemeCategory(AnalyzeFrequency(frame.sound), r)]>>

----------------------------------------------------------------------------------
(* animation.js: loadAssetSprite, loadSpriteImage *)

\* the assetType argument of loadAssetSprite, split where the code splits it:
\* "mouth_" or "eye_" and the rest, or the whole string
MouthAsset(name) == [prefix |-> "mouth_", name |-> name]
EyeAsset(name) == [prefix |-> "eye_", name |-> name]
BodyAsset == [prefix |-> "body", name |-> ""]
AssetTypes ==
  {MouthAsset(t) : t \in MouthTypes \cup {"silence"}}
    \cup {EyeAsset(e) : e \in EyeStates \cup {"half"}}
    \cup {BodyAsset, [prefix |-> "hat", name |-> ""]}

\* whether loadAssetSprite finds sprite data for the asset type
KnownAsset(asset) ==
  \/ asset.prefix = "mouth_" /\ asset.name \in MouthTypes
  \/ asset.prefix = "eye_" /\ asset.name \in EyeStates
  \/ asset = BodyAsset

\* loadSpriteImage on the visible sprites of one layer: img.onload puts a
\* new Sprite (visible, as every new display object is) where the old sprite
\* was; img.onerror rejects and replaces nothing
LoadSpriteImage(visible, name, decoded) ==
  IF decoded THEN visible \cup {name} ELSE visible

\* loadAssetSprite(assetType, assetUrl), decoded telling whether the image
\* loaded: the sprites visible in the mouth and eye layers and the assets
\* marked loaded
LoadAssetSprite(asset, decoded, mouths, eyes, done) ==
  IF ~KnownAsset(asset)
  THEN [mouthVisible |-> mouths, eyesVisible |-> eyes, loaded |-> done]
  ELSE [mouthVisible |-> IF asset.prefix = "mouth_"
                         THEN LoadSpriteImage(mouths, asset.name, decoded)
                         ELSE mouths,
        eyesVisible |-> IF asset.prefix = "eye_"
                        THEN LoadSpriteImage(eyes, asset.name, decoded)
                        ELSE eyes,
        loaded |-> IF decoded THEN done \cup {asset} ELSE done]

\* whether the sprite of a mouth or eye asset is visible
Shown(asset, mouths, eyes) ==
  \/ asset.prefix = "mouth_" /\ asset.name \in mouths
  \/ asset.prefix = "eye_" /\ asset.name \in eyes

NoLoad == [called |-> FALSE, asset |-> BodyAsset, decoded |-> FALSE,
           shownBefore |-> FALSE, shownAfter |-> FALSE]

----------------------------------------------------------------------
(* animation.js: updateMouthSprite, updateEyeSprite, setEyeState, triggerBlink *)

\* an updateMouthSprite that leaves the sprites as they are
MouthUpdateSkipped(category, current, visible) ==
  [current |-> current, visible |-> visible, switched |-> 0]

\* an updateMouthSprite without the early return on an unchanged category
MouthUpdateAlways(category, current, visible) ==
  IF category \notin MouthTypes
  THEN [current |-> current, visible |-> visible, switched |-> 0]
  ELSE [current |-> category, visible |-> {category}, switched |-> 1]

\* updateMouthSprite(layer, category) on the mouth state (current, visible);
\* switched counts the passes over the sprites' visibility it made
MouthUpdate(category, current, visible) ==
  IF category = "" \/ current = category
  THEN [current |-> current, visible |-> visible, switched |-> 0]
  ELSE IF category \notin MouthTypes
  THEN [current |-> current, visible |-> visible, switched |-> 0]
  ELSE [current |-> category, visible |-> {category}, switched |-> 1]

\* an updateEyeSprite that does not reset timeSinceLastBlink when a blink ends
EyeUpdateKeepsTime(eye, draw) ==
  IF eye.isBlinking
  THEN IF eye.blinkTimer + 1 > blinkDuration
       THEN [eye EXCEPT !.isBlinking = FALSE, !.blinkTimer = 0,
                        !.nextBlinkTime = draw,
                        !.timeSinceLastBlink = eye.timeSinceLastBlink + 1,
                        !.eyesVisible = {"open"}]
       ELSE [eye EXCEPT !.blinkTimer = eye.blinkTimer + 1,
                        !.timeSinceLastBlink = eye.timeSinceLastBlink + 1,
                        !.eyesVisible = {"closed"}]
  ELSE IF eye.timeSinceLastBlink + 1 >= eye.nextBlinkTime
       THEN [eye EXCEPT !.isBlinking = TRUE, !.blinkTimer = 0,
                        !.timeSinceLastBlink = eye.timeSinceLastBlink + 1]
       ELSE [eye EXCEPT !.timeSinceLastBlink = eye.timeSinceLastBlink + 1]

\* an updateEyeSprite that stores the next deadline as a time on the running
\* clock instead of a delay
EyeUpdateAbsoluteDeadline(eye, draw) ==
  IF eye.isBlinking
  THEN IF eye.blinkTimer + 1 > blinkDuration
       THEN [eye EXCEPT !.isBlinking = FALSE, !.blinkTimer = 0,
                        !.nextBlinkTime = eye.timeSinceLastBlink + 1 + draw,
                        !.timeSinceLastBlink = 0,
                        !.eyesVisible = {"open"}]
       ELSE [eye EXCEPT !.blinkTimer = eye.blinkTimer + 1,
                        !.timeSinceLastBlink = eye.timeSinceLastBlink + 1,
                        !.eyesVisible = {"closed"}]
  ELSE IF eye.timeSinceLastBlink + 1 >= eye.nextBlinkTime
       THEN [eye EXCEPT !.isBlinking = TRUE, !.blinkTimer = 0,
                        !.timeSinceLastBlink = eye.timeSinceLastBlink + 1]
       ELSE [eye EXCEPT !.timeSinceLastBlink = eye.timeSinceLastBlink + 1]

\* updateEyeSprite(layer) on the blink state; draw is the deadline drawn
\* if the blink finishes in this tick
EyeUpdate(eye, draw) ==
  LET since == eye.timeSinceLastBlink + 1
      timer == eye.blinkTimer + 1
  IN IF eye.isBlinking
     THEN IF timer > blinkDuration
          THEN [eye EXCEPT !.isBlinking = FALSE, !.blinkTimer = 0,
                           !.nextBlinkTime = draw, !.timeSinceLastBlink = 0,
                           !.eyesVisible = {"open"}]
          ELSE [eye EXCEPT !.blinkTimer = timer, !.timeSinceLastBlink = since,
                           !.eyesVisible = {"closed"}]
     ELSE IF since >= eye.nextBlinkTime
          THEN [eye EXCEPT !.isBlinking = TRUE, !.blinkTimer = 0,
                           !.timeSinceLastBlink = since]
          ELSE [eye EXCEPT !.timeSinceLastBlink = since]

\* setEyeState(layer, state), state "open" or "closed"
EyeSet(eye, state) ==
  [eye EXCEPT !.isBlinking = FALSE, !.blinkTimer = 0,
              !.currentEyeState = state, !.eyesVisible = {state}]

\* a triggerBlink that leaves the hold timer where it was
EyeTriggerKeepsTimer(eye) ==
  [eye EXCEPT !.isBlinking = TRUE, !.timeSinceLastBlink = 0]

\* triggerBlink(layer)
EyeTrigger(eye) ==
  [eye EXCEPT !.isBlinking = TRUE, !.blinkTimer = 0, !.timeSinceLastBlink = 0]

\* the blink state as one record
Eye ==
  [isBlinking |-> isBlinking, blinkTimer |-> blinkTimer,
   nextBlinkTime |-> nextBlinkTime, timeSinceLastBlink |-> timeSinceLastBlink,
   currentEyeState |-> currentEyeState, eyesVisible |-> eyesVisible]

SetEye(e) ==
  /\ isBlinking' = e.isBlinking
  /\ blinkTimer' = e.blinkTimer
  /\ nextBlinkTime' = e.nextBlinkTime
  /\ timeSinceLastBlink' = e.timeSinceLastBlink
  /\ currentEyeState' = e.currentEyeState
  /\ eyesVisible' = e.eyesVisible

----------------------------------------------------------------------------
(* main.js: the closure returned by createAudioProcessor *)

\* a render tick that runs the driver in the audio test mode too
AudioOnInTestMode(micEnabled, audioTestMode) == micEnabled

\* animate: appState.isMicEnabled && !appState.isAudioTestMode
AudioOn(micEnabled, audioTestMode) == micEnabled /\ ~audioTestMode

\* a driver without the throttle
NeverThrottled(t, last) == FALSE

\* now - lastProcessTime < PROCESS_INTERVAL
Throttled(t, last) == t - last < PROCESS_INTERVAL

\* a driver without the re-entrancy guard
NeverBusy(flag) == FALSE

\* if (isProcessing) return
Busy(flag) == flag

\* a driver that takes the newest frame (pop() for shift())
ShiftNewest(q) == [frame |-> q[Len(q)], rest |-> SubSeq(q, 1, Len(q) - 1)]

\* window.audioBufferQueue.shift(): the frame taken and the queue left
ShiftOldest(q) == [frame |-> Head(q), rest |-> Tail(q)]

\* processAudio() up to its await, called at Date.now() = t: the driver state
\* it leaves, the buffer it leaves, and the frames it handed to
\* processAudioBuffer
ProcessAudio(t, last, flag, ref, buffers) ==
  IF Throttled(t, last) \/ Busy(flag) \/ WindowQueue(ref, buffers) = <<>>
  THEN [lastProcessTime |-> last, isProcessing |-> flag,
        buffers |-> buffers, handed |-> <<>>]
  ELSE LET taken == ShiftOldest(WindowQueue(ref, buffers))
       IN [lastProcessTime |-> t, isProcessing |-> TRUE,
           buffers |-> taken.rest, handed |-> <<taken.frame>>]


----------------------------------------------------------------------------
(* Initial state: the modules' top-level declarations, initAnimation done *)

NoResolve == [called |-> FALSE, phoneme |-> NullEvent, before |-> <<>>,
              emitted |-> "idle", dropped |-> 0]
NoMouthCall == [called |-> FALSE, arg |-> "idle", before |-> "idle",
                visibleBefore |-> MouthTypes, switched |-> 0, manual |-> ""]
NoEyeTick == [called |-> FALSE, started |-> FALSE, ended |-> FALSE]
NoOverride == [op |-> "auto", ticks |-> 0]
NoStop == [called |-> FALSE, frames |-> 0, delivered |-> 0, history |-> <<>>,
           category |-> "idle"]
NoStart == [called |-> FALSE, success |-> FALSE, delivered |-> 0,
            category |-> "idle", inFlight |-> 0]
NoSettle == [called |-> FALSE, outcome |-> "none", category |-> "idle",
             history |-> <<>>]
NoTick == [called |-> FALSE, micEnabled |-> FALSE, audioTestMode |-> FALSE]
NoClassify == [called |-> FALSE, frame |-> [data |-> "none", sound |-> "none"],
               result |-> <<>>, engine |-> NoEngine]

InitBase ==
  /\ audioBuffers = <<>>
  /\ queueRef = "undefined"
  /\ capturing = FALSE
  /\ mediaStream = FALSE
  /\ isAudioRunning = FALSE
  /\ producers = 0
  /\ starting = 0
  /\ nextFrameId = 1
  /\ isMicEnabled = FALSE
  /\ testMode = "live"
  /\ isAudioTestMode = FALSE
  /\ phonemeCategory = "idle"
  /\ now = EpochStart
  /\ lastProcessTime = 0
  /\ isProcessing = FALSE
  /\ pending = <<>>
  /\ phonemeHistory = <<>>
  /\ currentMouthType = "idle"
  /\ mouthVisible = MouthTypes
  /\ isBlinking = FALSE
  /\ blinkTimer = 0
  /\ timeSinceLastBlink = 0
  /\ currentEyeState = "open"
  /\ eyesVisible = {"open"}
  /\ delivered = <<>>
  /\ cycleStarts = <<>>
  /\ tickStarts = 0
  /\ lastResolve = NoResolve
  /\ lastMouthCall = NoMouthCall
  /\ lastEyeTick = NoEyeTick
  /\ ticks = 0
  /\ eyeOverride = NoOverride
  /\ lastStop = NoStop
  /\ lastStart = NoStart
  /\ lastSettle = NoSettle
  /\ lastTick = NoTick
  /\ lastClassify = NoClassify
  /\ loadedSprites = {}
  /\ lastLoad = NoLoad

\* main() has awaited initLipSync() before the loop and the handlers exist
LipSyncLoaded ==
  /\ rhubarb = InitLipSync(NoEngine).rhubarb
  /\ lipSyncState = InitLipSync(NoEngine).result

Init ==
  /\ InitBase
  /\ LipSyncLoaded
  /\ smoothingFactor = SMOOTHING_FACTOR
  /\ nextBlinkTime \in BlinkDeadlines

----------------------------------------------------------------------------
(* Operations *)

\* scriptProcessor.onaudioprocess: one captured frame
Capture ==
  /\ capturing
  /\ audioBuffers' = PushFrame(audioBuffers, nextFrameId)
  /\ nextFrameId' = nextFrameId + 1
  /\ UNCHANGED <<queueRef, capturing, driverVars, appVars, lipVars, mouthVars,
                 eyeVars, obsVars>>
  /\ UNCHANGED <<micVars, engineVars, assetVars, traceVars>>

\* animate(): one render tick. d is the time since the previous Date.now()
\* read, draw the blink deadline drawn if a blink finishes in this tick
Animate(d, draw) ==
  LET audioOn == AudioOn(isMicEnabled, isAudioTestMode)
      t == now + d
      pa == IF audioOn
            THEN ProcessAudio(t, lastProcessTime, isProcessing, queueRef, audioBuffers)
            ELSE [lastProcessTime |-> lastProcessTime, isProcessing |-> isProcessing,
                  buffers |-> audioBuffers, handed |-> <<>>]
      m == MouthUpdate(phonemeCategory, currentMouthType, mouthVisible)
      e == EyeUpdate(Eye, draw)
  IN /\ now' = IF audioOn THEN t ELSE now
     /\ lastProcessTime' = pa.lastProcessTime
     /\ isProcessing' = pa.isProcessing
     /\ audioBuffers' = pa.buffers
     /\ pending' = pending \o pa.handed
     /\ delivered' = delivered \o pa.handed
     /\ cycleStarts' = IF pa.handed = <<>> THEN cycleStarts ELSE Append(cycleStarts, t)
     /\ tickStarts' = Len(pa.handed)
     /\ currentMouthType' = m.current
     /\ mouthVisible' = m.visible
     /\ lastMouthCall' = [called |-> TRUE, arg |-> phonemeCategory,
                          before |-> currentMouthType,
                          visibleBefore |-> mouthVisible, switched |-> m.switched,
                          manual |-> lastMouthCall.manual]
     /\ SetEye(e)
     /\ lastEyeTick' = [called |-> TRUE,
                        started |-> ~isBlinking /\ e.isBlinking,
                        ended |-> isBlinking /\ ~e.isBlinking]
     /\ eyeOverride' = IF eyeOverride.op = "auto" \/ eyeOverride.ticks > blinkDuration + 1
                       THEN eyeOverride
                       ELSE [eyeOverride EXCEPT !.ticks = @ + 1]
     /\ lastTick' = [called |-> TRUE, micEnabled |-> isMicEnabled,
                     audioTestMode |-> isAudioTestMode]
     /\ UNCHANGED <<queueRef, capturing, nextFrameId, appVars, lipVars, lastResolve,
                    micVars, engineVars, assetVars, lastStop, lastStart, lastSettle,
                    lastClassify>>

\* the result of a classification that returned no phoneme events
NoPhonemes == "<empty>"

\* a processAudioBuffer promise that rejected, or a getPhonemeCategory that threw
Rejected == "<error>"

\* a continuation without the finally block: a failure leaves the guard set
AfterAwaitNoFinally(outcome, category, history, factor, r) ==
  IF outcome = Rejected
  THEN [category |-> category, history |-> history, resolved |-> FALSE,
        isProcessing |-> TRUE]
  ELSE IF outcome = NoPhonemes
  THEN [category |-> category, history |-> history, resolved |-> FALSE,
        isProcessing |-> FALSE]
  ELSE LET res == GetPhonemeCategory(outcome, history, factor, r)
       IN [category |-> res.category, history |-> res.history, resolved |-> TRUE,
           isProcessing |-> FALSE]

\* a continuation that closes the mouth (idle) when no phoneme was detected
AfterAwaitIdleOnEmpty(outcome, category, history, factor, r) ==
  IF outcome = Rejected
  THEN [category |-> category, history |-> history, resolved |-> FALSE,
        isProcessing |-> FALSE]
  ELSE IF outcome = NoPhonemes
  THEN [category |-> "idle", history |-> history, resolved |-> FALSE,
        isProcessing |-> FALSE]
  ELSE LET res == GetPhonemeCategory(outcome, history, factor, r)
       IN [category |-> res.category, history |-> res.history, resolved |-> TRUE,
           isProcessing |-> FALSE]

\* processAudio() after its await, on appState.phonemeCategory, the history and
\* the guard: the catch block and the early return change nothing, the
\* finally block clears isProcessing on every path
AfterAwait(outcome, category, history, factor, r) ==
  IF outcome = Rejected \/ outcome = NoPhonemes
  THEN [category |-> category, history |-> history, resolved |-> FALSE,
        isProcessing |-> FALSE]
  ELSE LET res == GetPhonemeCategory(outcome, history, factor, r)
       IN [category |-> res.category, history |-> res.history, resolved |-> TRUE,
           isProcessing |-> FALSE]

\* processAudio() after its await: the pending processAudioBuffer call settles
\* with an error, with no events, or with first event `outcome`
ClassifyDone(outcome, r) ==
  LET after == AfterAwait(outcome, phonemeCategory, phonemeHistory,
                          smoothingFactor, r)
  IN /\ pending # <<>>
     /\ pending' = Tail(pending)
     /\ isProcessing' = after.isProcessing
     /\ phonemeCategory' = after.category
     /\ phonemeHistory' = after.history
     /\ lastResolve' = IF after.resolved
                       THEN [called |-> TRUE, phoneme |-> outcome,
                             before |-> phonemeHistory,
                             emitted |-> after.category, dropped |-> 0]
                       ELSE lastResolve
     /\ lastSettle' = [called |-> TRUE,
                       outcome |-> IF outcome \in {Rejected, NoPhonemes}
                                   THEN outcome ELSE "events",
                       category |-> phonemeCategory, history |-> phonemeHistory]
     /\ UNCHANGED <<audioVars, now, lastProcessTime, isMicEnabled, testMode,
                    isAudioTestMode,
                    smoothingFactor, mouthVars, eyeVars, delivered, cycleStarts,
                    tickStarts, lastMouthCall, lastEyeTick, ticks, micVars,
                    engineVars, assetVars,
                    eyeOverride, lastStop, lastStart, lastTick,
                    lastClassify>>

\* the microphone state of audio.js
Mic == [mediaStream |-> mediaStream, isAudioRunning |-> isAudioRunning,
        producers |-> producers, queueRef |-> queueRef]

SetMic(m) ==
  /\ mediaStream' = m.mediaStream
  /\ isAudioRunning' = m.isAudioRunning
  /\ producers' = m.producers
  /\ queueRef' = m.queueRef
  /\ capturing' = (m.producers > 0)

\* an onMicToggle(true) that sets isMicEnabled whatever startMicrophone returned
OnMicToggleOnIgnoresResult(ok) ==
  /\ ~isMicEnabled
  /\ SetMic(StartMicrophone(Mic, IF ok THEN "granted" ELSE "denied").mic)
  /\ isMicEnabled' = TRUE
  /\ UNCHANGED <<audioBuffers, nextFrameId, starting, driverVars, testMode,
                 isAudioTestMode, phonemeCategory, lipVars, mouthVars, eyeVars,
                 obsVars>>
  /\ UNCHANGED <<engineVars, assetVars, eyeOverride, lastStop, lastSettle, lastTick,
                 lastClassify>>

\* onMicToggle(true) from the button, shown while isMicEnabled is false:
\* startMicrophone, then isMicEnabled = result.success
OnMicToggleStart(outcome) ==
  LET res == StartMicrophone(Mic, outcome)
  IN /\ ~isMicEnabled
     /\ SetMic(res.mic)
     /\ isMicEnabled' = res.success
     /\ UNCHANGED <<audioBuffers, nextFrameId, starting, driverVars, testMode,
                    isAudioTestMode, phonemeCategory, lipVars, mouthVars,
                    eyeVars, obsVars>>
     /\ UNCHANGED <<engineVars, assetVars, eyeOverride, lastStop, lastSettle, lastTick,
                    lastClassify>>

\* onMicToggle(true): startMicrophone succeeds (ok) or getUserMedia rejects
\* (lastStart is left to the run: see MicOn, MicOnObserved)
OnMicToggleOn(ok) == OnMicToggleStart(IF ok THEN "granted" ELSE "denied")

\* an onMicToggle(false) that also puts the blink machine back to its start
OnMicToggleOffResetsBlink ==
  /\ isMicEnabled
  /\ SetMic(StopMicrophone(Mic))
  /\ isMicEnabled' = FALSE
  /\ isBlinking' = FALSE
  /\ blinkTimer' = 0
  /\ timeSinceLastBlink' = 0
  /\ UNCHANGED <<audioBuffers, nextFrameId, starting, driverVars, testMode,
                 isAudioTestMode, phonemeCategory, lipVars, mouthVars,
                 nextBlinkTime, currentEyeState, eyesVisible, obsVars>>
  /\ UNCHANGED <<engineVars, assetVars, eyeOverride, lastStart, lastSettle, lastTick,
                 lastClassify>>

\* onMicToggle(false): stopMicrophone, then isMicEnabled = false
\* (lastStop is left to the run: see MicOff and MicOffObserved)
OnMicToggleOff ==
  /\ isMicEnabled
  /\ SetMic(StopMicrophone(Mic))
  /\ isMicEnabled' = FALSE
  /\ UNCHANGED <<audioBuffers, nextFrameId, starting, driverVars, testMode,
                 isAudioTestMode, phonemeCategory, lipVars, mouthVars, eyeVars,
                 obsVars>>
  /\ UNCHANGED <<engineVars, assetVars, eyeOverride, lastStart, lastSettle, lastTick,
                 lastClassify>>

\* startMicrophone() up to its await: a call that finds mediaStream set
\* returns at once and changes nothing; any other call requests the stream
StartMicrophoneBegin ==
  /\ ~mediaStream
  /\ starting < MaxStarts
  /\ starting' = starting + 1
  /\ UNCHANGED <<audioVars, mediaStream, isAudioRunning, producers, driverVars,
                 appVars, lipVars, mouthVars, eyeVars, obsVars>>
  /\ UNCHANGED <<engineVars, assetVars, traceVars>>

\* startMicrophone() from its await on: getUserMedia settles for one of the
\* calls that are waiting
StartMicrophoneSettle(outcome) ==
  /\ starting > 0
  /\ producers < MaxProducers
  /\ starting' = starting - 1
  /\ SetMic(AfterGetUserMedia(Mic, outcome).mic)
  /\ UNCHANGED <<audioBuffers, nextFrameId, driverVars, appVars, lipVars,
                 mouthVars, eyeVars, obsVars>>
  /\ UNCHANGED <<engineVars, assetVars, traceVars>>

\* stopMicrophone(), which has no await and runs to completion
StopMicrophoneCall ==
  /\ SetMic(StopMicrophone(Mic))
  /\ UNCHANGED <<audioBuffers, nextFrameId, starting, driverVars, appVars,
                 lipVars, mouthVars, eyeVars, obsVars>>
  /\ UNCHANGED <<engineVars, assetVars, traceVars>>

\* onTestModeChange(newMode)
OnTestModeChange(newMode) ==
  /\ testMode' = newMode
  /\ isAudioTestMode' = (newMode = "audio")
  /\ UNCHANGED <<audioVars, driverVars, isMicEnabled, phonemeCategory, lipVars,
                 mouthVars, eyeVars, obsVars>>
  /\ UNCHANGED <<micVars, engineVars, assetVars, traceVars>>

\* onMouthChange(mouthType): the manual mouth buttons and keys
OnMouthChange(mouthType) ==
  LET m == MouthUpdate(mouthType, currentMouthType, mouthVisible)
  IN /\ currentMouthType' = m.current
     /\ mouthVisible' = m.visible
     /\ lastMouthCall' = [called |-> TRUE, arg |-> mouthType,
                          before |-> currentMouthType,
                          visibleBefore |-> mouthVisible, switched |-> m.switched,
                          manual |-> IF mouthType \in MouthTypes THEN mouthType
                                     ELSE lastMouthCall.manual]
     /\ UNCHANGED <<audioVars, driverVars, appVars, lipVars, eyeVars, delivered,
                    cycleStarts, tickStarts, lastResolve, lastEyeTick, ticks>>
     /\ UNCHANGED <<micVars, engineVars, assetVars, traceVars>>

\* window.testMouthAnimation(mouthType)
TestMouthAnimation(mouthType) ==
  /\ phonemeCategory' = mouthType
  /\ UNCHANGED <<audioVars, driverVars, isMicEnabled, testMode,
                 isAudioTestMode, lipVars,
                 mouthVars, eyeVars, obsVars>>
  /\ UNCHANGED <<micVars, engineVars, assetVars, traceVars>>

\* handleFileUpload: loadAssetSprite(assetType, url) run to its end
AssetLoad(asset, decoded) ==
  LET res == LoadAssetSprite(asset, decoded, mouthVisible, eyesVisible, loadedSprites)
  IN /\ mouthVisible' = res.mouthVisible
     /\ eyesVisible' = res.eyesVisible
     /\ loadedSprites' = res.loaded
     /\ lastLoad' = [called |-> TRUE, asset |-> asset, decoded |-> decoded,
                     shownBefore |-> Shown(asset, mouthVisible, eyesVisible),
                     shownAfter |-> Shown(asset, res.mouthVisible, res.eyesVisible)]
     /\ UNCHANGED <<audioVars, micVars, driverVars, appVars, lipVars,
                    currentMouthType, isBlinking, blinkTimer, nextBlinkTime,
                    timeSinceLastBlink, currentEyeState, obsVars, engineVars,
                    traceVars>>

\* onEyeOpen / onEyeClosed: setEyeState(layers.eyes, state)
SetEyeState(state) ==
  /\ SetEye(EyeSet(Eye, state))
  /\ UNCHANGED <<audioVars, driverVars, appVars, lipVars, mouthVars, obsVars>>
  /\ eyeOverride' = [op |-> state, ticks |-> 0]
  /\ UNCHANGED <<micVars, engineVars, assetVars, lastStop, lastStart, lastSettle, lastTick,
                 lastClassify>>

\* onEyeBlink: triggerBlink(layers.eyes)
TriggerBlink ==
  /\ SetEye(EyeTrigger(Eye))
  /\ UNCHANGED <<audioVars, driverVars, appVars, lipVars, mouthVars, obsVars>>
  /\ eyeOverride' = [op |-> "blink", ticks |-> 0]
  /\ UNCHANGED <<micVars, engineVars, assetVars, lastStop, lastStart, lastSettle, lastTick,
                 lastClassify>>

\* main(): await initLipSync(), the fetch having gone as `fetched`
InitLipSyncDone(fetched) ==
  LET init == InitLipSync(LoadRhubarbWasm(fetched))
  IN /\ rhubarb' = init.rhubarb
     /\ lipSyncState' = init.result
     /\ UNCHANGED <<audioVars, micVars, driverVars, appVars, lipVars, mouthVars,
                    eyeVars, obsVars, assetVars, traceVars>>

\* a call of the exported processAudioBuffer(frame)
ProcessFrame(frame, r) ==
  /\ lastClassify' = [called |-> TRUE, frame |-> frame,
                      result |-> ProcessAudioBuffer(rhubarb, frame, r),
                      engine |-> rhubarb]
  /\ UNCHANGED <<audioVars, driverVars, appVars, lipVars, mouthVars, eyeVars,
                 obsVars, micVars, engineVars, assetVars, eyeOverride, lastStop, lastStart,
                 lastSettle,
                 lastTick>>

\* a call of the exported getPhonemeCategory(phoneme)
Resolve(phoneme, r) ==
  LET res == GetPhonemeCategory(phoneme, phonemeHistory, smoothingFactor, r)
  IN /\ phonemeHistory' = res.history
     /\ lastResolve' = [called |-> TRUE, phoneme |-> phoneme,
                        before |-> phonemeHistory,
                        emitted |-> res.category,
                        dropped |-> IF lastResolve.called THEN 0
                                    ELSE lastResolve.dropped]
     /\ UNCHANGED <<audioVars, driverVars, appVars, smoothingFactor, mouthVars,
                    eyeVars, delivered, cycleStarts, tickStarts, lastMouthCall,
                    lastEyeTick, ticks>>
     /\ UNCHANGED <<micVars, engineVars, assetVars, traceVars>>

\* resetPhonemeHistory() (lastResolve then holds the entries it dropped)
ResetPhonemeHistory ==
  /\ phonemeHistory' = <<>>
  /\ lastResolve' = [NoResolve EXCEPT !.dropped = Len(phonemeHistory)]
  /\ UNCHANGED <<audioVars, driverVars, appVars, smoothingFactor, mouthVars,
                 eyeVars, delivered, cycleStarts, tickStarts, lastMouthCall,
                 lastEyeTick, ticks>>
  /\ UNCHANGED <<micVars, engineVars, assetVars, traceVars>>

----------------------------------------------------------------------------
(* Specifications *)

\* the inputs of a tick that its outcome depends on
ClockDraws == IF AudioOn(isMicEnabled, isAudioTestMode) THEN ClockGaps ELSE {0}
DeadlineDraws ==
  IF isBlinking /\ blinkTimer + 1 > blinkDuration THEN BlinkDeadlines ELSE {nextBlinkTime}

\* a render tick of a run of at most n ticks
TickUpTo(n) ==
  /\ ticks < n
  /\ ticks' = ticks + 1
  /\ \E d \in ClockDraws : \E draw \in DeadlineDraws : Animate(d, draw)

\* a render tick of an unbounded run
FreeTick ==
  /\ timeSinceLastBlink < TimeCap
  /\ ticks' = ticks
  /\ \E d \in ClockDraws : \E draw \in DeadlineDraws : Animate(d, draw)

\* a captured frame of a run of at most n frames
CaptureUpTo(n) == nextFrameId <= n /\ Capture

\* the microphone switched on
MicOn == (\E ok \in BOOLEAN : OnMicToggleOn(ok)) /\ UNCHANGED lastStart

\* the microphone switched on, with the result of the start recorded: what
\* startMicrophone returned, the frames delivered so far, the viseme, and the
\* classifications still in flight from an earlier capture
MicOnObserved ==
  \E ok \in BOOLEAN :
    /\ OnMicToggleOn(ok)
    /\ lastStart' = [called |-> TRUE,
                     success |-> StartMicrophone(
                                   Mic, IF ok THEN "granted" ELSE "denied").success,
                     delivered |-> Len(delivered), category |-> phonemeCategory,
                     inFlight |-> Len(pending)]

\* the microphone switched off
MicOff == OnMicToggleOff /\ UNCHANGED lastStop

\* the microphone switched off, with what the stop left behind recorded: the
\* frames captured and delivered so far, and the history and the category
\* once it completed
MicOffObserved ==
  /\ OnMicToggleOff
  /\ lastStop' = [called |-> TRUE, frames |-> nextFrameId,
                   delivered |-> Len(delivered), history |-> phonemeHistory',
                   category |-> phonemeCategory']

TestMode == \E mode \in {"live", "audio", "animation"} : OnTestModeChange(mode)

\* the first phoneme event of a classification in the pipeline runs
PipelineEvents == {"A", "E"}

Classified ==
  \E o \in PipelineEvents \cup {NoPhonemes} : \E r \in {0, 9} : ClassifyDone(o, r)

ClassifyFailed == ClassifyDone(Rejected, 0)

Unclassified == ClassifyDone(NoPhonemes, 0)

\* the pipeline: capture, render ticks, classification, microphone, test mode
PipelineInit == Init /\ nextBlinkTime = 120

Next ==
  \/ CaptureUpTo(PipelineFrames)
  \/ TickUpTo(MaxTicks)
  \/ Classified
  \/ ClassifyFailed
  \/ MicOn
  \/ MicOff
  \/ TestMode

Spec == PipelineInit /\ [][Next]_vars

\* the frame buffer: capture past the capacity, ticks that dequeue, microphone
NextBuffer ==
  \/ CaptureUpTo(MaxFrames)
  \/ TickUpTo(BufferTicks)
  \/ Unclassified
  \/ MicOn
  \/ MicOff

SpecBuffer == PipelineInit /\ [][NextBuffer]_vars


\* the smoother: calls of getPhonemeCategory and resetPhonemeHistory, for
\* builds with the smoothing factor at 0, at its value and at 1
SmoothingFactors == {0, SMOOTHING_FACTOR, 10}

SmootherEvents == {"A", "E", NullEvent}

SmootherInit ==
  /\ InitBase
  /\ LipSyncLoaded
  /\ smoothingFactor \in SmoothingFactors
  /\ nextBlinkTime = 120

Resolved == \E p \in SmootherEvents : \E r \in RandomDraws : Resolve(p, r)

NextSmoother == Resolved \/ ResetPhonemeHistory

SpecSmoother == SmootherInit /\ [][NextSmoother]_vars

\* the mapping: getPhonemeCategory on every kind of event, on short histories
MappingEvents ==
  DOMAIN PHONEME_MAP \cup InheritedKeys \cup {"rest", "silent", "", "X", NullEvent}

Mapped ==
  /\ Len(phonemeHistory) < MaxCalls
  /\ \E p \in MappingEvents : \E r \in {0, 9} : Resolve(p, r)

SpecMapping == PipelineInit /\ [][Mapped]_vars

\* the mouth: render ticks, the manual mouth controls, the console hook
MouthArgs == MouthTypes \cup {"silence"}

MouthChanged == \E m \in MouthArgs : OnMouthChange(m)

MouthTested == \E m \in MouthArgs : TestMouthAnimation(m)

NextMouth == TickUpTo(MaxTicks) \/ MouthChanged \/ MouthTested

SpecMouth == PipelineInit /\ [][NextMouth]_vars

\* the autonomous blink machine: render ticks only, which requestAnimationFrame
\* keeps scheduling
SpecBlink == Init /\ [][FreeTick]_vars /\ WF_vars(FreeTick)

\* stopping the microphone: the pipeline with every stop recorded
NextStop ==
  \/ CaptureUpTo(PipelineFrames)
  \/ TickUpTo(MaxTicks)
  \/ Classified
  \/ MicOn
  \/ MicOffObserved

SpecStop == PipelineInit /\ [][NextStop]_vars

\* the render loop across a whole blink: ticks a throttle interval apart,
\* capture, classification, the microphone, and a blink started by hand so
\* that it falls within the run
SlowTick ==
  /\ ticks < LoopTicks
  /\ ticks' = ticks + 1
  /\ \E draw \in DeadlineDraws : Animate(PROCESS_INTERVAL, draw)

NextLoop ==
  \/ CaptureUpTo(LoopFrames)
  \/ SlowTick
  \/ Classified
  \/ MicOn
  \/ MicOff
  \/ TriggerBlink

SpecLoop == PipelineInit /\ [][NextLoop]_vars

\* lipsync.js on its own, from its top-level declarations (rhubarb = null):
\* initLipSync with every outcome of the fetch, and calls of the exported
\* processAudioBuffer and getPhonemeCategory before and after it
LipSyncInit ==
  /\ InitBase
  /\ rhubarb = NoEngine
  /\ lipSyncState = [returned |-> FALSE, success |-> FALSE, usingMock |-> FALSE]
  /\ smoothingFactor = SMOOTHING_FACTOR
  /\ nextBlinkTime = 120

LipSyncInitialised == \E fetched \in FetchOutcomes : InitLipSyncDone(fetched)

FrameProcessed == \E frame \in Frames : \E r \in RandomDraws : ProcessFrame(frame, r)

NextLipSync == LipSyncInitialised \/ FrameProcessed \/ Mapped

SpecLipSync == LipSyncInit /\ [][NextLipSync]_vars

\* the eyes: render ticks and the manual eye controls (open, closed, blink)
EyeForced == \E state \in EyeStates : SetEyeState(state)

NextEye == FreeTick \/ EyeForced \/ TriggerBlink

SpecEye == Init /\ [][NextEye]_vars

\* microphone starts that succeed or fail, in the running pipeline
NextStart ==
  \/ CaptureUpTo(PipelineFrames)
  \/ TickUpTo(MaxTicks)
  \/ Classified
  \/ MicOnObserved
  \/ MicOff

SpecStart == PipelineInit /\ [][NextStart]_vars

\* the candidate sequence A, A, E, A, A classified frame by frame at the tick
\* rate, from an empty history, under every draw
Scenario == <<"A", "A", "E", "A", "A">>

ScenarioClassified ==
  /\ Len(phonemeHistory) < Len(Scenario)
  /\ \E r \in RandomDraws : ClassifyDone(Scenario[Len(phonemeHistory) + 1], r)

NextScenario ==
  \/ CaptureUpTo(Len(Scenario))
  \/ SlowTick
  \/ ScenarioClassified
  \/ MicOn

SpecScenario == PipelineInit /\ [][NextScenario]_vars

\* the Animation Test mode: entered from the live mode and kept, with the
\* manual mouth controls, render ticks, and the microphone and its frames
EnterAnimationTest == testMode = "live" /\ OnTestModeChange("animation")

ManualMouth == testMode = "animation" /\ MouthChanged

NextManual ==
  \/ EnterAnimationTest
  \/ ManualMouth
  \/ TickUpTo(MaxTicks)
  \/ MicOn
  \/ CaptureUpTo(LoopFrames)
  \/ Classified

SpecManual == PipelineInit /\ [][NextManual]_vars

\* the Audio/Lip Sync Test mode: entered from the live mode and kept, with the
\* microphone, captured frames, and the render loop running for ever
EnterAudioTest == testMode = "live" /\ OnTestModeChange("audio")

AudioTestTick == IF isAudioTestMode THEN FreeTick ELSE TickUpTo(LiveTicks)

NextAudioTest ==
  \/ EnterAudioTest
  \/ MicOn
  \/ CaptureUpTo(LoopFrames)
  \/ AudioTestTick
  \/ Classified

SpecAudioTest ==
  /\ PipelineInit
  /\ [][NextAudioTest]_vars
  /\ WF_vars(AudioTestTick)
  /\ WF_vars(Classified)

\* the driver under a render loop that keeps ticking and classifications that
\* settle: ticks PROCESS_INTERVAL ms apart, frames arriving, every outcome
Settled == Classified \/ ClassifyFailed

GuardTick ==
  /\ ticks < GuardTicks
  /\ ticks' = ticks + 1
  /\ \E draw \in DeadlineDraws : Animate(PROCESS_INTERVAL, draw)

NextGuard ==
  \/ CaptureUpTo(LoopFrames + 1)
  \/ GuardTick
  \/ Settled
  \/ MicOn
  \/ MicOff

SpecGuard ==
  /\ PipelineInit
  /\ [][NextGuard]_vars
  /\ WF_vars(GuardTick)
  /\ WF_vars(Settled)

\* microphone starts with every outcome, a set-up that throws once the stream
\* has been obtained included, in the running pipeline
MicStarted == (\E o \in StartOutcomes : OnMicToggleStart(o)) /\ UNCHANGED lastStart

NextStartFaults ==
  \/ MicStarted
  \/ MicOff
  \/ CaptureUpTo(LoopFrames)
  \/ TickUpTo(LiveTicks)
  \/ Classified

SpecStartFaults == PipelineInit /\ [][NextStartFaults]_vars

\* audio.js alone: startMicrophone calls that overlap each other and
\* stopMicrophone calls, with the frames the connected callbacks push
StartSettled == \E o \in StartOutcomes : StartMicrophoneSettle(o)

NextOverlap ==
  \/ StartMicrophoneBegin
  \/ StartSettled
  \/ StopMicrophoneCall
  \/ CaptureUpTo(MaxFrames)

SpecOverlap == PipelineInit /\ [][NextOverlap]_vars

\* the pipeline with the installed engine classifying: a captured frame holds
\* a Float32Array of any sound, processAudioBuffer yields the events, and the
\* continuation of processAudio maps the first one; render ticks a throttle
\* interval apart
EngineClassified ==
  \E sound \in Sounds : \E r \in RandomDraws : \E s \in {0, 9} :
    LET phonemes == ProcessAudioBuffer(
                      rhubarb, [data |-> "Float32Array", sound |-> sound], r)
    IN ClassifyDone(IF phonemes = <<>> THEN NoPhonemes ELSE phonemes[1].phoneme, s)

NextEngine ==
  \/ CaptureUpTo(LoopFrames + 1)
  \/ GuardTick
  \/ EngineClassified
  \/ MicOn
  \/ MicOff

SpecEngine == PipelineInit /\ [][NextEngine]_vars

\* the asset loader: uploads of images for every asset type, that decode or
\* not, between manual changes of the mouth and eyes shown
AssetLoaded ==
  /\ Cardinality(loadedSprites) < MaxLoads
  /\ \E asset \in AssetTypes : \E decoded \in BOOLEAN : AssetLoad(asset, decoded)

NextAssets == AssetLoaded \/ MouthChanged \/ EyeForced

SpecAssets == Init /\ [][NextAssets]_vars


----------------------------------------------------------------------------
(* Properties *)

Last(q) == q[Len(q)]
Min(a, b) == IF a < b THEN a ELSE b
Pushed == nextFrameId - 1

\* the frames held are the most recently captured ones, in capture order
HoldsNewestRun ==
  \A i \in 1 .. Len(audioBuffers) :
    audioBuffers[i] = nextFrameId - Len(audioBuffers) + i - 1

\* C1: the frame buffer never holds more than 15 frames; every push is
\* admitted, evicting the single oldest frame when the buffer is full, so the
\* buffer holds the most recently pushed frames in push order, and exactly
\* min(pushes, 15) of them while nothing has been dequeued
C1_BufferBounded ==
  /\ Len(audioBuffers) <= BUFFER_LIMIT
  /\ HoldsNewestRun
  /\ delivered = <<>> => Len(audioBuffers) = Min(Pushed, BUFFER_LIMIT)

\* C1 witness: pushes went past the capacity with no dequeue
C1_Witness ==
  /\ Pushed > BUFFER_LIMIT + 1
  /\ delivered = <<>>
  /\ Len(audioBuffers) = BUFFER_LIMIT
  /\ audioBuffers[1] = Pushed - BUFFER_LIMIT + 1

\* C2: frames reach the classifier at most once and in capture order, and the
\* frame taken is always older than every frame left in the buffer
C2_AtMostOnceInOrder ==
  /\ \A i, j \in 1 .. Len(delivered) : i < j => delivered[i] < delivered[j]
  /\ \A i \in 1 .. Len(delivered) : \A k \in 1 .. Len(audioBuffers) :
       delivered[i] < audioBuffers[k]

\* C2 witness: two frames were delivered with an eviction between them, and
\* frames are still queued
C2_Witness ==
  /\ Len(delivered) >= 2
  /\ delivered[2] > delivered[1] + 1
  /\ audioBuffers # <<>>

C4_OneInFlight == Len(pending) <= 1

\* C4 witness: a tick past the throttle interval, with a frame queued, started
\* nothing because a classification was still in flight
C4_Witness ==
  /\ Len(pending) = 1
  /\ isProcessing
  /\ isMicEnabled /\ ~isAudioTestMode
  /\ WindowQueue(queueRef, audioBuffers) # <<>>
  /\ now - lastProcessTime >= PROCESS_INTERVAL
  /\ tickStarts = 0

\* the candidate of a call: idle for an absent event, else the mapped label
CandidateOf(phoneme) == IF phoneme = NullEvent THEN "idle" ELSE Candidate(phoneme)

\* C5: with a previous emission, a candidate equal to it is emitted, and a
\* differing candidate yields the candidate or the previous category, nothing else
C5_Hysteresis ==
  (lastResolve.called /\ lastResolve.phoneme # NullEvent /\ lastResolve.before # <<>>)
    => /\ lastResolve.emitted \in
            {CandidateOf(lastResolve.phoneme), Last(lastResolve.before)}
       /\ CandidateOf(lastResolve.phoneme) = Last(lastResolve.before)
            => lastResolve.emitted = CandidateOf(lastResolve.phoneme)

\* C5 witness: a differing candidate was rejected and the previous one emitted
C5_Witness ==
  /\ lastResolve.called
  /\ lastResolve.phoneme # NullEvent
  /\ lastResolve.before # <<>>
  /\ CandidateOf(lastResolve.phoneme) # Last(lastResolve.before)
  /\ lastResolve.emitted = Last(lastResolve.before)

\* C6: with smoothing factor 0 every differing candidate is accepted, and with
\* smoothing factor 1 the emitted category never changes after the first one
C6_Extremes ==
  (lastResolve.called /\ lastResolve.phoneme # NullEvent /\ lastResolve.before # <<>>)
    => /\ smoothingFactor = 0
            => lastResolve.emitted = CandidateOf(lastResolve.phoneme)
       /\ smoothingFactor = 10
            => lastResolve.emitted = Last(lastResolve.before)

\* the history after appending c and truncating from the front
Appended(history, c) ==
  IF Len(history) < HISTORY_LIMIT
  THEN Append(history, c)
  ELSE Append(SubSeq(history, 2, Len(history)), c)

\* C7: every call, an absent event included, appends the category it emits:
\* the history is the one before, with the emitted category appended and the
\* oldest entry dropped past 10 entries
C7_EveryCallAppends ==
  /\ Len(phonemeHistory) <= HISTORY_LIMIT
  /\ lastResolve.called
       => /\ phonemeHistory = Appended(lastResolve.before, lastResolve.emitted)
          /\ Last(phonemeHistory) = lastResolve.emitted

\* C8: every call returns one of the eight mouth categories
C8_MappingTotal == lastResolve.called => lastResolve.emitted \in MouthTypes

\* C9: updateMouthSprite with the current category changes nothing and touches
\* no sprite; with another known category it makes one pass over the sprites,
\* after which that category is current and its sprite the only one visible
C9_MouthIdempotent ==
  lastMouthCall.called =>
    IF lastMouthCall.arg = lastMouthCall.before
    THEN /\ lastMouthCall.switched = 0
         /\ currentMouthType = lastMouthCall.before
         /\ mouthVisible = lastMouthCall.visibleBefore
    ELSE lastMouthCall.arg \in MouthTypes
           => /\ lastMouthCall.switched = 1
              /\ currentMouthType = lastMouthCall.arg
              /\ mouthVisible = {lastMouthCall.arg}

\* C9 witness: a category was applied, and applied again
C9_Witness ==
  /\ lastMouthCall.called
  /\ lastMouthCall.arg = lastMouthCall.before
  /\ lastMouthCall.arg # "idle"
  /\ lastMouthCall.visibleBefore = {lastMouthCall.arg}
  /\ lastMouthCall.switched = 0

\* the autonomous blink cycle as a state invariant: eyes open before the
\* deadline; blinking from the tick the deadline is reached, once, for the hold
BlinkCycle ==
  /\ nextBlinkTime \in 120 .. 299
  /\ ~isBlinking => /\ timeSinceLastBlink < nextBlinkTime
                    /\ blinkTimer = 0
                    /\ eyesVisible = {"open"}
  /\ isBlinking => /\ timeSinceLastBlink = nextBlinkTime + blinkTimer
                   /\ blinkTimer <= blinkDuration
                   /\ blinkTimer >= 1 => eyesVisible = {"closed"}
  /\ lastEyeTick.started => isBlinking /\ timeSinceLastBlink = nextBlinkTime
  /\ lastEyeTick.ended => ~isBlinking /\ timeSinceLastBlink = 0

\* C10: with ticks only, the machine starts blinking on the tick at which the
\* accumulated time reaches nextBlinkTime, once; when the hold timer exceeds
\* blinkDuration it is open again with timeSinceLastBlink 0 and a deadline in
\* [2 s, 5 s); a blink always eventually starts and always eventually ends
C10_BlinkCycle ==
  /\ []BlinkCycle
  /\ (~isBlinking) ~> isBlinking
  /\ isBlinking ~> (~isBlinking /\ timeSinceLastBlink = 0)

\* C10 witness: a blink that started at its deadline has just ended
C10_Witness ==
  /\ lastEyeTick.ended
  /\ ~isBlinking
  /\ timeSinceLastBlink = 0
  /\ eyesVisible = {"open"}

\* C11: while setEyeState('closed') is the latest manual eye operation, the
\* open-eye sprite is never visible, however many ticks pass
C11_ForcedClosedHolds ==
  eyeOverride.op = "closed" => "open" \notin eyesVisible

\* C12: setEyeState leaves both blink timers at zero, and the first tick after
\* it starts no blink
C12_OverrideZeroesTimers ==
  eyeOverride.op \in EyeStates =>
    /\ eyeOverride.ticks = 0 => blinkTimer = 0 /\ timeSinceLastBlink = 0
    /\ eyeOverride.ticks = 1 => ~isBlinking

\* C13: triggerBlink puts the machine in the blinking state with the hold timer
\* at 0 whatever the phase was; the blink then holds the eyes closed for
\* blinkDuration and ends on the next tick with the eyes open
C13_TriggerBlinkForces ==
  eyeOverride.op = "blink" =>
    IF eyeOverride.ticks <= blinkDuration
    THEN /\ isBlinking
         /\ blinkTimer = eyeOverride.ticks
         /\ timeSinceLastBlink = eyeOverride.ticks
         /\ eyeOverride.ticks >= 1 => eyesVisible = {"closed"}
    ELSE eyeOverride.ticks = blinkDuration + 1
           => /\ lastEyeTick.ended
              /\ ~isBlinking
              /\ blinkTimer = 0
              /\ eyesVisible = {"open"}

\* C13 witness: a blink triggered while the eyes were forced closed has ended
C13_Witness ==
  /\ eyeOverride.op = "blink"
  /\ eyeOverride.ticks = blinkDuration + 1
  /\ currentEyeState = "closed"
  /\ lastEyeTick.ended
  /\ eyesVisible = {"open"}

\* C14: once the microphone has been stopped, the buffer the driver sees is
\* empty and capture is off until it is started again, and every frame handed
\* to the classifier after the stop was captured after it
C14_StopDrains ==
  lastStop.called =>
    /\ ~isMicEnabled => (WindowQueue(queueRef, audioBuffers) = <<>> /\ ~capturing)
    /\ \A i \in lastStop.delivered + 1 .. Len(delivered) :
         delivered[i] >= lastStop.frames

\* C15: when disabling the microphone has completed, the smoothing history is
\* empty
C15_StopResetsHistory == lastStop.called => lastStop.history = <<>>

\* one updateEyeSprite step of the blink machine, whatever the deadline drawn
TickAdvances ==
  IF isBlinking
  THEN \/ isBlinking' /\ blinkTimer' = blinkTimer + 1
          /\ timeSinceLastBlink' = timeSinceLastBlink + 1
       \/ blinkTimer = blinkDuration /\ ~isBlinking' /\ blinkTimer' = 0
          /\ timeSinceLastBlink' = 0 /\ eyesVisible' = {"open"}
  ELSE timeSinceLastBlink' = timeSinceLastBlink + 1 /\ blinkTimer' = 0

\* C16: every render tick advances the blink machine, with the microphone on
\* or off and with or without a classification in flight, and every step that
\* is neither a tick nor a manual eye operation (frame push, classification
\* settling, microphone start and stop) leaves all blink variables unchanged
C16_BlinkIndependent ==
  [][ /\ ticks' # ticks => (TickAdvances /\ lastEyeTick'.called)
      /\ (ticks' = ticks /\ eyeOverride' = eyeOverride) => UNCHANGED eyeVars
    ]_vars

\* C16 witness: a blink in progress was advanced by a tick that ran with the
\* microphone on and a classification in flight
C16_Witness ==
  /\ isBlinking
  /\ blinkTimer >= 2
  /\ lastTick.micEnabled /\ ~lastTick.audioTestMode
  /\ pending # <<>>
  /\ tickStarts = 0

\* C17: a classification that fails is a tick without update: the category and
\* the smoothing history are what they were before it, and the re-entrancy
\* guard is released, as it is whenever no classification is in flight, so
\* that a later tick can classify again
C17_FailureIsNoUpdate ==
  /\ pending = <<>> => ~isProcessing
  /\ (lastSettle.called /\ lastSettle.outcome = Rejected)
       => /\ phonemeCategory = lastSettle.category
          /\ phonemeHistory = lastSettle.history

\* C17 witness: a classification failed after an earlier one had set a viseme,
\* the viseme is kept, and a later tick has started the next classification
C17_Witness ==
  /\ lastSettle.called
  /\ lastSettle.outcome = Rejected
  /\ lastSettle.category # "idle"
  /\ phonemeCategory = lastSettle.category
  /\ Len(delivered) >= 3
  /\ pending # <<>>

\* C18: every render tick, a classification being in flight or not, applies
\* the current category to the mouth and advances the blink machine; a tick
\* changes neither the category nor the history, and a classification it
\* starts is still in flight when it ends, so a result is applied to the mouth
\* by a later tick than the one that started it
C18_TickNeverWaits ==
  [][ ticks' # ticks =>
        /\ lastMouthCall'.called
        /\ lastMouthCall'.arg = phonemeCategory
        /\ phonemeCategory \in MouthTypes => currentMouthType' = phonemeCategory
        /\ lastEyeTick'.called
        /\ TickAdvances
        /\ phonemeCategory' = phonemeCategory
        /\ phonemeHistory' = phonemeHistory
        /\ Len(delivered') > Len(delivered) => (pending' # <<>> /\ isProcessing')
        /\ pending # <<>> => pending' = pending
    ]_vars

\* C18 witness: a tick past the throttle interval ran while a classification
\* was still in flight, showed the category set by an earlier result and
\* advanced the blink clock
C18_Witness ==
  /\ pending # <<>>
  /\ tickStarts = 0
  /\ lastTick.called
  /\ lastTick.micEnabled /\ ~lastTick.audioTestMode
  /\ now - lastProcessTime >= PROCESS_INTERVAL
  /\ lastMouthCall.called
  /\ currentMouthType = phonemeCategory
  /\ currentMouthType # "idle"
  /\ timeSinceLastBlink = ticks

MockLabels == {"rest", "A", "E", "O", "U", "F", "S", "M", "N"}

\* a well-formed result: a sequence of at most one event with a known label
WellFormed(result) ==
  /\ Len(result) <= 1
  /\ \A i \in 1 .. Len(result) :
       DOMAIN result[i] = {"phoneme"} /\ result[i].phoneme \in MockLabels

\* C20: once initLipSync has returned, it has reported success and a
\* classifier is installed, whatever the fetch of the primary engine did;
\* processAudioBuffer returns a well-formed, possibly empty, sequence of events
\* for every frame, before and after initialisation; and isUsingMock is true
\* exactly when the fallback classifier is the one installed
C20_FallbackActivation ==
  /\ lipSyncState.returned => (lipSyncState.success /\ rhubarb # NoEngine)
  /\ lastClassify.called => WellFormed(lastClassify.result)
  /\ (lastClassify.called /\ Len(lastClassify.result) = 1) => rhubarb # NoEngine
  /\ IsUsingMock(rhubarb) <=> (rhubarb = MockRhubarb)
  /\ ~lipSyncState.returned => ~IsUsingMock(rhubarb)

\* C20 witness: after the fallback was installed, a frame without sample data
\* was classified and yielded one event
C20_Witness ==
  /\ lipSyncState.returned
  /\ IsUsingMock(rhubarb)
  /\ lastClassify.called
  /\ lastClassify.frame.data = "undefined"
  /\ Len(lastClassify.result) = 1

\* C21: while a failed startMicrophone is the latest start, the microphone is
\* not enabled and capture is as it was, no frame has been dequeued since, the
\* viseme is the one shown at the failure (idle if there was none) unless a
\* classification of an earlier capture was still in flight, and the render
\* ticks keep advancing the blink clock
C21_StartFailureContained ==
  (lastStart.called /\ ~lastStart.success) =>
    /\ ~isMicEnabled
    /\ Len(delivered) = lastStart.delivered
    /\ lastStart.inFlight = 0 => phonemeCategory = lastStart.category
    /\ lastStart.delivered = 0 => phonemeCategory = "idle"
    /\ timeSinceLastBlink = ticks

\* C21 witness: a start failed after an earlier capture had set a viseme; the
\* viseme is kept, frames stay queued, and ticks have run since without a
\* dequeue
C21_Witness ==
  /\ lastStart.called /\ ~lastStart.success
  /\ lastStart.category # "idle"
  /\ phonemeCategory = lastStart.category
  /\ lastStart.inFlight = 0
  /\ Len(audioBuffers) >= 1
  /\ lastTick.called /\ ~lastTick.micEnabled
  /\ ticks = MaxTicks
  /\ timeSinceLastBlink = ticks

\* the number of positions where the sequence leaves category a
AwayFromA(emitted) ==
  Cardinality({i \in 1 .. Len(emitted) - 1 :
                 emitted[i] = "a" /\ emitted[i + 1] # "a"})

\* C22: with the candidates A, A, E, A, A from an empty history and smoothing
\* factor 0.7, the categories emitted so far leave a at most once, whatever
\* the draws were
C22_NoFlicker ==
  /\ smoothingFactor = SMOOTHING_FACTOR
  /\ AwayFromA(phonemeHistory) <= 1

\* C22 witness: E was accepted, the first A after it was rejected and the
\* second accepted
C22_Witness == phonemeHistory = <<"a", "a", "e", "e", "a">>

\* the category the label table gives: the listed labels, idle for an absent
\* event or label and for rest and silent, closed for every other label
TableCategory(label) ==
  IF label \in {"A", "I", "L"} THEN "a"
  ELSE IF label = "E" THEN "e"
  ELSE IF label = "O" THEN "o"
  ELSE IF label = "U" THEN "u"
  ELSE IF label \in {"M", "B", "P", "N"} THEN "m"
  ELSE IF label \in {"F", "V", "T", "D", "S", "Z"} THEN "f"
  ELSE IF label \in {NullEvent, "", "rest", "silent"} THEN "idle"
  ELSE "closed"

\* C23: on an empty history getPhonemeCategory returns the category of the
\* label table: a for A, I, L; e for E; o for O; u for U; m for M, B, P, N;
\* f for F, V, T, D, S, Z; idle for an absent event, rest and silent; closed
\* for every other label
C23_LabelTable ==
  (lastResolve.called /\ lastResolve.before = <<>>)
    => lastResolve.emitted = TableCategory(lastResolve.phoneme)

\* C24: a call on an empty history, the first call or the first one after
\* resetPhonemeHistory(), returns its candidate unchanged, whatever the
\* candidate, the smoothing factor and the draw
C24_EmptyHistoryPassThrough ==
  (lastResolve.called /\ lastResolve.before = <<>>)
    => /\ lastResolve.emitted = CandidateOf(lastResolve.phoneme)
       /\ lastResolve.phoneme # NullEvent
            => phonemeHistory = <<CandidateOf(lastResolve.phoneme)>>

\* C24 witness: with the factor under which every differing candidate is
\* rejected, the first call after a reset that dropped a full history
\* returned its candidate e
C24_Witness ==
  /\ smoothingFactor = 0
  /\ lastResolve.called
  /\ lastResolve.dropped = HISTORY_LIMIT
  /\ lastResolve.before = <<>>
  /\ lastResolve.phoneme = "E"
  /\ lastResolve.emitted = "e"

\* C25: a higher smoothing factor is stickier: for the differing candidate of
\* the latest call and the same draw, if the candidate is rejected under the
\* factor in use, it is rejected under every factor at least as high
C25_HigherIsStickier ==
  (/\ lastResolve.called
   /\ lastResolve.phoneme # NullEvent
   /\ lastResolve.before # <<>>
   /\ CandidateOf(lastResolve.phoneme) # Last(lastResolve.before))
    => \A s2 \in SmoothingFactors : \A r \in RandomDraws :
         (/\ smoothingFactor <= s2
          /\ Smooth(CandidateOf(lastResolve.phoneme), lastResolve.before,
                    smoothingFactor, r) = Last(lastResolve.before))
           => Smooth(CandidateOf(lastResolve.phoneme), lastResolve.before,
                     s2, r) = Last(lastResolve.before)

\* C26: in every state from the end of initAnimation on, exactly one mouth
\* sprite is visible, the one of the current mouth type (idle at first), and
\* exactly one eye sprite is visible (the open one at first)
C26_OneSpriteEach ==
  /\ mouthVisible = {currentMouthType}
  /\ Cardinality(eyesVisible) = 1
  /\ (~lastEyeTick.called /\ eyeOverride.op = "auto") => eyesVisible = {"open"}

\* C27: in the Animation Test mode, after onMouthChange(X) the mouth shown is
\* X after every later tick and every other step, until the next manual
\* change, with the microphone enabled or not
C27_ManualMouthHolds ==
  (testMode = "animation" /\ lastMouthCall.manual # "")
    => currentMouthType = lastMouthCall.manual

\* C28: in the audio test mode with the microphone enabled, every frame queued
\* is eventually handed to the classifier, so that its category can reach the
\* history the diagnostics show
C28_AudioTestClassifies ==
  \A f \in 1 .. LoopFrames + 1 :
    (/\ testMode = "audio"
     /\ isMicEnabled
     /\ \E i \in 1 .. Len(WindowQueue(queueRef, audioBuffers)) :
          WindowQueue(queueRef, audioBuffers)[i] = f)
      ~> (\E i \in 1 .. Len(delivered) : delivered[i] = f)

\* C29: the animation state is created with the idle mouth, the eyes open,
\* no blink in progress, both blink timers at 0 and a blink deadline within
\* [2 s, 5 s], and the deadline is within [2 s, 5 s] in every state, after
\* every tick, blink, setEyeState and triggerBlink
C29_DeadlineInRange ==
  /\ nextBlinkTime >= 120 /\ nextBlinkTime <= 300
  /\ (~lastEyeTick.called /\ ~lastMouthCall.called /\ eyeOverride.op = "auto")
       => /\ currentMouthType = "idle"
          /\ currentEyeState = "open"
          /\ eyesVisible = {"open"}
          /\ ~isBlinking
          /\ blinkTimer = 0
          /\ timeSinceLastBlink = 0

\* C29 witness: a blink forced by triggerBlink has ended on the latest tick,
\* which drew the next deadline
C29_Witness ==
  /\ eyeOverride.op = "blink"
  /\ lastEyeTick.ended
  /\ ~isBlinking
  /\ timeSinceLastBlink = 0
  /\ nextBlinkTime = 180

\* the driver can start a cycle: microphone enabled, live mode, a frame queued
CanClassify ==
  /\ isMicEnabled /\ ~isAudioTestMode
  /\ WindowQueue(queueRef, audioBuffers) # <<>>

\* C30: the re-entrancy guard cannot deadlock: the in-flight flag is clear
\* whenever no classification is pending, a set flag is always eventually
\* cleared, whether the classification returns events, returns none or
\* throws, and once it is clear, with the microphone on in the live mode, a
\* frame queued and the render loop still ticking, another classification is
\* eventually started unless the microphone is switched off first
C30_GuardReleases ==
  /\ [](pending = <<>> => ~isProcessing)
  /\ isProcessing ~> ~isProcessing
  /\ \A k \in 0 .. LoopFrames + 2 :
       (CanClassify /\ ~isProcessing /\ ticks < GuardTicks /\ Len(delivered) = k)
         ~> (Len(delivered) > k \/ ~isMicEnabled)

\* C30 witness: a classification that returned no events has settled, and a
\* later tick has started the next one
C30_Witness ==
  /\ Len(delivered) >= 2
  /\ lastSettle.called /\ lastSettle.outcome = NoPhonemes
  /\ phonemeHistory = <<>>
  /\ isProcessing /\ pending # <<>>
  /\ isMicEnabled

C32_SuccessMeansCapture ==
  isMicEnabled => (capturing /\ producers >= 1 /\ isAudioRunning)

\* C33: however startMicrophone and stopMicrophone calls interleave, at most
\* one capture callback feeds the frame buffer, and none does when the module
\* is as stopMicrophone leaves it with no start under way
C33_SingleProducer ==
  /\ producers <= 1
  /\ (~mediaStream /\ ~isAudioRunning /\ starting = 0) => producers = 0

\* C34: a classification that returns no phoneme events has consumed its
\* frame and leaves appState.phonemeCategory and the smoothing history as they
\* were before it, so the mouth stays on its last viseme
C34_EmptyResultNoUpdate ==
  (lastSettle.called /\ lastSettle.outcome = NoPhonemes)
    => /\ phonemeCategory = lastSettle.category
       /\ phonemeHistory = lastSettle.history
       /\ delivered # <<>>
       /\ \A i \in 1 .. Len(delivered) : \A k \in 1 .. Len(audioBuffers) :
            audioBuffers[k] # delivered[i]

\* C34 witness: after an earlier result had set a viseme, a classification
\* returned no events; a later tick shows the same viseme and has started the
\* next classification
C34_Witness ==
  /\ lastSettle.called
  /\ lastSettle.outcome = NoPhonemes
  /\ lastSettle.category # "idle"
  /\ phonemeCategory = lastSettle.category
  /\ currentMouthType = lastSettle.category
  /\ pending # <<>>
  /\ tickStarts = 1

\* C35: the fallback classifier returns exactly one phoneme event per frame:
\* rest when the frame energy is below 0.01, whatever the ratios; otherwise A,
\* E, O or U when the low-frequency ratio exceeds 0.55; otherwise F or S when
\* the high-frequency ratio exceeds 0.55; otherwise M or N
C35_MockDecisionOrder ==
  (lastClassify.called /\ lastClassify.engine = MockRhubarb
     /\ lastClassify.frame # NullFrame)
    => LET spectrum == AnalyzeFrequency(lastClassify.frame.sound)
           quiet == ~spectrum.nan /\ spectrum.energy < 10
           low == ~spectrum.nan /\ spectrum.lowFreqRatio > 55
           high == ~spectrum.nan /\ spectrum.highFreqRatio > 55
       IN /\ Len(lastClassify.result) = 1
          /\ lastClassify.result[1].phoneme \in
               IF quiet THEN {"rest"}
               ELSE IF low THEN {"A", "E", "O", "U"}
               ELSE IF high THEN {"F", "S"}
               ELSE {"M", "N"}

\* C35 witness: a frame below the silence threshold whose low-frequency ratio
\* exceeds 0.55 was classified as rest
C35_Witness ==
  /\ lastClassify.called
  /\ lastClassify.engine = MockRhubarb
  /\ lastClassify.frame.sound = "murmur"
  /\ AnalyzeFrequency("murmur").lowFreqRatio > 55
  /\ lastClassify.result = <<[phoneme |-> "rest"]>>

\* C36: a full frame buffer (15 frames of 4096 samples at 16000 samples per
\* second) holds about one second of audio: between half a second and two
\* seconds
C36_BufferAboutOneSecond ==
  Len(audioBuffers) = BUFFER_LIMIT
    => (BufferedMillis(audioBuffers) >= 500 /\ BufferedMillis(audioBuffers) <= 2000)

C38_EyeStateShown == ~isBlinking => eyesVisible = {currentEyeState}

\* C39: loadAssetSprite replaces the sprite of a mouth or eye asset without
\* changing whether that sprite is visible: a sprite hidden before the load is
\* hidden after it
C39_LoadKeepsVisibility ==
  lastLoad.called => (lastLoad.shownAfter <=> lastLoad.shownBefore)

====
